---- MODULE Spec2Model ----
(***************************************************************************)
(* The HouseCall webhook relay: POST /webhooks/housecall receives an event *)
(* envelope, (in the early version) verifies its HMAC signature, formats a *)
(* Google Chat card and POSTs it to a chat webhook.                        *)
(*                                                                         *)
(* Two versions of the service are in the repository:                      *)
(*   src/Housecall.py  the early version: configuration check, signature   *)
(*                     check, job.created only;                            *)
(*   src/app.py        the later version: no signature check, three event  *)
(*                     families.                                           *)
(* One of them is deployed (variable version); the configuration is read   *)
(* once at start and never changes.                                        *)
(*                                                                         *)
(* Modelling conventions                                                   *)
(*   - a Python dict is a function on its keys; an absent key is a key     *)
(*     outside DOMAIN; the empty dict is <<>>;                             *)
(*   - a Python string built by an f-string is the tuple of its parts;     *)
(*   - an event string is the tuple of its "."-separated segments;         *)
(*   - a request body is its JSON value together with its spelling (the    *)
(*     byte sequence is determined by both): json.loads forgets the        *)
(*     spelling, json.dumps writes Python's default spelling;              *)
(*   - HMAC-SHA256 is collision free: hex character i of a digest is       *)
(*     determined by (key, message, i).                                    *)
(***************************************************************************)
EXTENDS Integers, Sequences, FiniteSets, TLC

VARIABLES version, secret, jobUrl, estimateUrl, pc, request, response, outbound, steps, log

vars == <<version, secret, jobUrl, estimateUrl, pc, request, response, outbound, steps, log>>

(***************************************************************************)
(* Bounds                                                                  *)
(***************************************************************************)
\* hex characters of a digest that the model distinguishes (64 in SHA-256)
DigestLen == 2
\* longest list of employees / notes in a payload
MaxList == 1

(***************************************************************************)
(* Python helpers                                                          *)
(***************************************************************************)
EmptyDict == <<>>

\* Python's None, where a .get without a default finds no key
None == <<>>

\* d.get(k, dflt)
Get(d, k, dflt) == IF k \in DOMAIN d THEN d[k] ELSE dflt

\* event.startswith('job.appointment.')
StartsWithJobAppointment(e) == Len(e) >= 3 /\ e[1] = "job" /\ e[2] = "appointment"

JOB_CREATED == <<"job", "created">>
ESTIMATE_SCHEDULED == <<"estimate", "scheduled">>
APPT_SCHEDULED == <<"job", "appointment", "scheduled">>
APPT_RESCHEDULED == <<"job", "appointment", "rescheduled">>
APPT_DISCARDED == <<"job", "appointment", "appointment_discarded">>
APPT_PROS_ASSIGNED == <<"job", "appointment", "appointment_pros_assigned">>
APPT_PROS_UNASSIGNED == <<"job", "appointment", "appointment_pros_unassigned">>
\* payload.get('event', '') of an envelope without the key
EMPTY_EVENT == <<"">>

(***************************************************************************)
(* JSON                                                                    *)
(***************************************************************************)
\* json.loads(raw_body) raises on a malformed body
IsValidJson(body) == body.form # "malformed"

json_loads(body) == body.value

\* json.dumps(payload): Python's default separators (", " and ": ")
json_dumps(payload) == [form |-> "default", value |-> payload]

\* a decoded JSON value: [kind |-> "dict", obj |-> the dict] or a value of another
\* kind (a list, a number ...), which has no .get and no [key]
IsDict(value) == value.kind = "dict"

(***************************************************************************)
(* HMAC                                                                    *)
(***************************************************************************)
\* f"{timestamp}" : None prints as "None"
TimestampStr(headers) == Get(headers, "Api-Timestamp", "None")

\* f"{timestamp}.{body}"
SignatureBody(headers, body) == <<TimestampStr(headers), ".", body>>

\* hmac.new(key, msg, hashlib.sha256).hexdigest()
HmacSha256Hex(key, msg) ==
    [i \in 1..DigestLen |-> [key |-> key, msg |-> msg, pos |-> i, flipped |-> FALSE]]

\* the digest with its i-th hex character replaced by another one
FlipChar(digest, i) == [digest EXCEPT ![i].flipped = ~digest[i].flipped]

\* hmac.compare_digest(a, b) on two strings
compare_digest(a, b) == a = b

(***************************************************************************)
(* The outbound POST (requests.post) and its outcomes                      *)
(***************************************************************************)
HTTP_OK == 200

\* what the chat webhook may answer; connected = FALSE is a ConnectionError
ChatOutcomes ==
    {[connected |-> TRUE, status_code |-> s] : s \in {200, 204, 404, 500}}
        \cup {[connected |-> FALSE, status_code |-> 0]}

\* requests.post(url, json=message) refuses a URL without a scheme (MissingSchema)
\* before anything is sent
IsUsableUrl(url) == url # ""

\* a variant that takes every status below 400 for a delivery
IsFailureStatusFrom400(status_code) == status_code >= 400

\* response.status_code != 200
IsFailureStatus(status_code) == status_code # HTTP_OK

\* requests.post(url, json=message): nothing is sent to a URL without a scheme
\* (the call raises MissingSchema); otherwise one request goes out and either is
\* answered or the connection fails (the call raises ConnectionError)
requests_post(url, message, outcome) ==
    IF ~IsUsableUrl(url)
    THEN [raised |-> TRUE, posts |-> <<>>]
    ELSE [raised |-> ~outcome.connected,
          posts |-> <<[url |-> url, json |-> message, outcome |-> outcome]>>]

\* send_chat_message(message, webhook_url): an exception unless the answer is 200
send_chat_message(message, webhook_url, outcome) ==
    LET r == requests_post(webhook_url, message, outcome)
    IN IF r.raised
       THEN [raised |-> TRUE, posts |-> r.posts,
             log |-> <<[level |-> "ERROR", msg |-> "Error sending notification"]>>]
       ELSE IF IsFailureStatus(outcome.status_code)
       THEN [raised |-> TRUE, posts |-> r.posts,
             log |-> <<[level |-> "ERROR", msg |-> "Failed to send message to Google Chat"],
                       [level |-> "ERROR", msg |-> "Error sending notification"]>>]
       ELSE [raised |-> FALSE, posts |-> r.posts,
             log |-> <<[level |-> "INFO", msg |-> "Successfully sent message to chat"]>>]

(***************************************************************************)
(* src/app.py: the formatters                                              *)
(***************************************************************************)
\* format_time(time_str); a time string is [iso |-> whether fromisoformat
\* accepts it, text |-> the string]
format_time(time_str) ==
    IF time_str = None THEN <<"Not scheduled">>
    ELSE IF time_str.iso THEN <<"%B %d, %Y at %I:%M %p", time_str.text>>
    ELSE <<time_str.text>>

\* the "first last" text, with '' for an absent name
FullName(person) == <<Get(person, "first_name", ""), " ", Get(person, "last_name", "")>>

\* customer.get('mobile_number', customer.get('home_number', 'No phone provided'))
PhoneOf(customer) ==
    Get(customer, "mobile_number", Get(customer, "home_number", "No phone provided"))

\* the three widgets of the "Customer Information" section
CustomerSection(customer) ==
    [header |-> "Customer Information",
     widgets |-> <<[text |-> FullName(customer), startIcon |-> "PERSON",
                    bottomLabel |-> <<Get(customer, "company", "No company")>>],
                   [text |-> <<Get(customer, "email", "No email provided")>>,
                    startIcon |-> "EMAIL"],
                   [text |-> <<PhoneOf(customer)>>, startIcon |-> "PHONE"]>>]

\* the "Location" section
LocationSection(address) ==
    [header |-> "Location",
     widgets |-> <<[text |-> <<Get(address, "street", ""), ", ",
                               Get(address, "street_line_2", ""), " ",
                               Get(address, "city", ""), ", ",
                               Get(address, "state", ""), " ",
                               Get(address, "zip", "")>>,
                    startIcon |-> "LOCATION_ON",
                    bottomLabel |-> <<Get(address, "type", "service")>>]>>]

\* one widget per employee of a list
EmployeeWidgets(employees) ==
    [i \in 1..Len(employees) |->
        [text |-> FullName(employees[i]), startIcon |-> "PERSON",
         bottomLabel |-> <<Get(employees[i], "mobile_number", "No phone provided")>>]]

\* process_estimate_scheduled(payload): the card it builds
EstimateCard(payload) ==
    LET estimate == Get(payload, "estimate", EmptyDict)
        customer == Get(estimate, "customer", EmptyDict)
        address == Get(estimate, "address", EmptyDict)
        schedule == Get(estimate, "schedule", EmptyDict)
        assigned_employees == Get(estimate, "assigned_employees", <<>>)
        base == <<[header |-> "Schedule Details",
                   widgets |-> <<[text |-> <<"Start: ">> \o format_time(Get(schedule, "scheduled_start", None)),
                                  startIcon |-> "CLOCK"],
                                 [text |-> <<"End: ">> \o format_time(Get(schedule, "scheduled_end", None)),
                                  startIcon |-> "SCHEDULE"],
                                 [text |-> <<"Arrival Window: ", ToString(Get(schedule, "arrival_window", 0)), " minutes">>,
                                  startIcon |-> "TIMER"]>>],
                  CustomerSection(customer),
                  LocationSection(address)>>
    IN [cardId |-> <<"estimate-", Get(estimate, "id", "unknown")>>,
        header |-> [title |-> "New Estimate Scheduled",
                    subtitle |-> <<"Estimate #", Get(estimate, "estimate_number", "N/A")>>],
        sections |-> IF assigned_employees # <<>>
                     THEN Append(base, [header |-> "Assigned Employees",
                                        widgets |-> EmployeeWidgets(assigned_employees)])
                     ELSE base]

\* process_job_created(payload): the card it builds
JobCard(payload) ==
    LET job == Get(payload, "job", EmptyDict)
        customer == Get(job, "customer", EmptyDict)
        address == Get(job, "address", EmptyDict)
        job_type == Get(Get(job, "job_fields", EmptyDict), "job_type", EmptyDict)
        notes == Get(job, "notes", <<>>)
        base == <<[header |-> "Job Details",
                   widgets |-> <<[text |-> <<Get(job, "description", "No description")>>,
                                  startIcon |-> "DESCRIPTION",
                                  bottomLabel |-> <<"Type: ", Get(job_type, "name", "Not specified")>>],
                                 [text |-> <<"Status: ", Get(job, "work_status", "Unknown")>>,
                                  startIcon |-> "EVENT_AVAILABLE"]>>],
                  CustomerSection(customer),
                  LocationSection(address)>>
    IN [cardId |-> <<"job-", Get(job, "id", "unknown")>>,
        header |-> [title |-> "New Job Created",
                    subtitle |-> <<"Invoice #", Get(job, "invoice_number", "N/A")>>],
        sections |-> IF notes # <<>>
                     THEN Append(base, [header |-> "Notes",
                                        widgets |-> [i \in 1..Len(notes) |->
                                            [text |-> <<Get(notes[i], "content", "")>>,
                                             startIcon |-> "DESCRIPTION"]]])
                     ELSE base]

\* title_map of process_appointment_event
title_map ==
    [e \in {APPT_SCHEDULED, APPT_RESCHEDULED, APPT_DISCARDED, APPT_PROS_ASSIGNED,
            APPT_PROS_UNASSIGNED} |->
        CASE e = APPT_SCHEDULED -> <<"New Appointment Scheduled", "New appointment scheduled">>
          [] e = APPT_RESCHEDULED -> <<"Appointment Rescheduled", "Appointment time changed">>
          [] e = APPT_DISCARDED -> <<"Appointment Cancelled", "Appointment has been cancelled">>
          [] e = APPT_PROS_ASSIGNED -> <<"Technicians Assigned", "New technicians assigned to appointment">>
          [] e = APPT_PROS_UNASSIGNED -> <<"Technicians Removed", "Technicians removed from appointment">>]

\* title_map.get(event_type, ("Appointment Update", ...))
TitleOf(event_type) == Get(title_map, event_type, <<"Appointment Update", "Appointment updated">>)

\* is_cancelled = event_type == 'job.appointment.appointment_discarded'
IsCancelled(event_type) == event_type = APPT_DISCARDED

\* the "N hour(s) and M minute(s)" parts of the arrival window
WindowText(arrival_window) ==
    LET hours == arrival_window \div 60
        minutes == arrival_window % 60
        h == IF hours # 0
             THEN <<<<ToString(hours), IF hours # 1 THEN " hours" ELSE " hour">>>>
             ELSE <<>>
        m == IF minutes # 0
             THEN <<<<ToString(minutes), IF minutes # 1 THEN " minutes" ELSE " minute">>>>
             ELSE <<>>
    IN h \o m

\* a variant that lists the technicians of a cancelled appointment too
AddsTechniciansAlways(dispatched_employees, is_cancelled) ==
    dispatched_employees # <<>>

\* if dispatched_employees and not is_cancelled
AddsTechnicians(dispatched_employees, is_cancelled) ==
    dispatched_employees # <<>> /\ ~is_cancelled

\* process_appointment_event(event_type, payload): the card it builds
AppointmentCard(event_type, payload) ==
    LET appointment == Get(payload, "appointment", EmptyDict)
        is_cancelled == IsCancelled(event_type)
        arrival_window == Get(appointment, "arrival_window_minutes", 0)
        dispatched_employees == Get(appointment, "dispatched_employees", <<>>)
        times == <<[text |-> <<"Start: ">> \o format_time(Get(appointment, "start_time", None)),
                    startIcon |-> "CLOCK"],
                   [text |-> <<"End: ">> \o format_time(Get(appointment, "end_time", None)),
                    startIcon |-> "SCHEDULE"]>>
        details == [header |-> "Appointment Details",
                    widgets |-> IF arrival_window # 0
                                THEN Append(times, [text |-> <<"Arrival Window: ", WindowText(arrival_window)>>,
                                                    startIcon |-> "TIMER"])
                                ELSE times]
        technicians == IF AddsTechnicians(dispatched_employees, is_cancelled)
                       THEN <<[header |-> "Assigned Technicians",
                               widgets |-> EmployeeWidgets(dispatched_employees)]>>
                       ELSE <<>>
        job_ref == <<[widgets |-> <<[text |-> <<"Job ID: ", Get(appointment, "job_id", "Unknown")>>,
                                     startIcon |-> "BOOKMARK"]>>]>>
        notice == IF is_cancelled
                  THEN <<[header |-> "Cancellation Notice",
                          widgets |-> <<[text |-> <<"This appointment has been cancelled">>,
                                         startIcon |-> "CANCEL",
                                         bottomLabel |-> <<"Please update your schedule accordingly">>]>>]>>
                  ELSE <<>>
    IN [cardId |-> <<"appointment-", Get(appointment, "id", "unknown")>>,
        header |-> [title |-> TitleOf(event_type)[1], subtitle |-> TitleOf(event_type)[2]],
        sections |-> <<details>> \o technicians \o job_ref \o notice]

(***************************************************************************)
(* src/app.py: handle_webhook                                              *)
(***************************************************************************)
\* the result of a handler: the HTTP answer, the cards the formatters built, the
\* POSTs put on the wire, the steps taken in order and the log lines
Result(status, body, cards, posts, stepsTaken, logLines) ==
    [status |-> status, body |-> body, cards |-> cards, posts |-> posts,
     steps |-> stepsTaken, log |-> logLines]

Info(msg) == [level |-> "INFO", msg |-> msg]
Error(msg) == [level |-> "ERROR", msg |-> msg]

\* a variant that matches the appointment events by exact string
AppRouteExactMatch(event) ==
    IF event = ESTIMATE_SCHEDULED THEN "estimate"
    ELSE IF event = JOB_CREATED THEN "job"
    ELSE IF event \in DOMAIN title_map THEN "appointment"
    ELSE "none"

\* the event switch of handle_webhook: which formatter, if any, takes the event
AppRoute(event) ==
    IF event = ESTIMATE_SCHEDULED THEN "estimate"
    ELSE IF event = JOB_CREATED THEN "job"
    ELSE IF StartsWithJobAppointment(event) THEN "appointment"
    ELSE "none"

\* handle_webhook of src/app.py on one request, the chat webhook answering outcome
AppHandleWebhook(req, cfg, outcome) ==
    LET raw_body == req.body
        head == <<Info("New Webhook Request"), Info("Headers"), Info("Raw Body")>>
        failed(stepsTaken, logLines, cards, posts) ==
            Result(500, "Error processing request", cards, posts, stepsTaken,
                   head \o logLines \o <<Error("Error processing webhook")>>)
    IN IF ~IsValidJson(raw_body)
       THEN failed(<<"raw_body", "parse">>, <<>>, <<>>, <<>>)
       ELSE IF ~IsDict(json_loads(raw_body))
       THEN failed(<<"raw_body", "parse">>, <<>>, <<>>, <<>>)
       ELSE LET payload == json_loads(raw_body).obj
                event == Get(payload, "event", EMPTY_EVENT)
                route == AppRoute(event)
                seen == <<Info("Processing event type")>>
            IN IF route = "none"
               THEN Result(200, "OK", <<>>, <<>>, <<"raw_body", "parse", "switch">>, head \o seen)
               ELSE LET message == CASE route = "estimate" -> EstimateCard(payload)
                                     [] route = "job" -> JobCard(payload)
                                     [] route = "appointment" -> AppointmentCard(event, payload)
                        url == IF route = "estimate" THEN cfg.estimateUrl ELSE cfg.jobUrl
                        sent == send_chat_message(message, url, outcome)
                        done == <<"raw_body", "parse", "switch", "format", "send">>
                    IN IF sent.raised
                       THEN failed(done, seen \o sent.log, <<message>>, sent.posts)
                       ELSE Result(200, "OK", <<message>>, sent.posts, done, head \o seen \o sent.log)

(***************************************************************************)
(* src/Housecall.py                                                        *)
(***************************************************************************)
\* ', '.join(parts)
RECURSIVE JoinComma(_)
JoinComma(parts) ==
    IF Len(parts) = 0 THEN <<>>
    ELSE IF Len(parts) = 1 THEN <<parts[1]>>
    ELSE <<parts[1], ", ">> \o JoinComma(Tail(parts))

IsTruthy(str) == str # ""

\* the address line: ', '.join(filter(None, address_parts)), '' for an empty address
AddressStr(address) ==
    IF address = EmptyDict THEN <<>>
    ELSE JoinComma(SelectSeq(<<Get(address, "street", ""), Get(address, "street_line_2", ""),
                               Get(address, "city", ""), Get(address, "state", ""),
                               Get(address, "zip", "")>>, IsTruthy))

\* 'Unscheduled' unless the schedule has a scheduled_start
ScheduleStr(schedule) ==
    IF schedule # EmptyDict /\ Get(schedule, "scheduled_start", None) # None
    THEN schedule["scheduled_start"].text
    ELSE "Unscheduled"

\* f"{total_amount:,.2f}" of a whole amount below 1000
Money2f(amount) == <<ToString(amount), ".00">>

\* the keys send_chat_notification reads with job[...] and customer[...]
HousecallJobComplete(job) ==
    /\ {"customer", "address", "schedule"} \subseteq DOMAIN job
    /\ {"first_name", "last_name"} \subseteq DOMAIN job["customer"]

\* the message of send_chat_notification(job), for a job with the keys it indexes
HousecallCard(job) ==
    LET customer == job["customer"]
        address == job["address"]
        schedule == job["schedule"]
    IN [cardId |-> <<"job-", Get(job, "id", "unknown")>>,
        header |-> [title |-> "New Job Created",
                    subtitle |-> <<"Invoice #", Get(job, "invoice_number", "N/A")>>],
        sections |-> <<[header |-> "Customer Details",
                        widgets |-> <<[text |-> <<customer["first_name"], " ", customer["last_name"]>>,
                                       bottomLabel |-> <<Get(customer, "email", "No email provided")>>]>>],
                       [header |-> "Job Details",
                        widgets |-> <<[text |-> <<Get(job, "description", "No description provided")>>,
                                       bottomLabel |-> <<"Total Amount: $">> \o Money2f(Get(job, "total_amount", 0))],
                                      [text |-> AddressStr(address),
                                       bottomLabel |-> <<"Scheduled for: ", ScheduleStr(schedule)>>]>>]>>]

\* send_chat_notification(job): KeyError on a key it indexes, else one POST and an
\* exception unless the answer is 200
send_chat_notification(job, url, outcome) ==
    IF ~HousecallJobComplete(job)
    THEN [raised |-> TRUE, cards |-> <<>>, posts |-> <<>>, steps |-> <<"format">>, log |-> <<>>]
    ELSE LET message == HousecallCard(job)
             r == requests_post(url, message, outcome)
         IN IF r.raised
            THEN [raised |-> TRUE, cards |-> <<message>>, posts |-> r.posts,
                  steps |-> <<"format", "send">>, log |-> <<>>]
            ELSE IF IsFailureStatus(outcome.status_code)
            THEN [raised |-> TRUE, cards |-> <<message>>, posts |-> r.posts,
                  steps |-> <<"format", "send">>,
                  log |-> <<Error("Failed to send message to Google Chat")>>]
            ELSE [raised |-> FALSE, cards |-> <<message>>, posts |-> r.posts,
                  steps |-> <<"format", "send">>,
                  log |-> <<Info("Successfully sent message to Google Chat")>>]

\* if not HOUSECALL_SIGNING_SECRET or not GOOGLE_CHAT_WEBHOOK_URL
HousecallConfigMissing(cfg) == cfg.secret = "" \/ cfg.jobUrl = ""

\* request.get_json() reads the body only of a request whose Content-Type is JSON
IsJsonMime(headers) == Get(headers, "Content-Type", "") = "application/json"

\* the signature check: calculated over f"{timestamp}.{json.dumps(payload)}"
HousecallCalculatedSignature(cfg, headers, payload) ==
    HmacSha256Hex(cfg.secret, SignatureBody(headers, json_dumps(payload)))

\* handle_webhook of src/Housecall.py on one request.  flask415: whether the
\* installed Flask answers 415 to a non-JSON Content-Type (2.1 and later) or
\* get_json() returns None (before 2.1)
HousecallHandleWebhook(req, cfg, outcome, flask415) ==
    LET headers == req.headers
        received == <<Info("Received webhook request")>>
        unhandled(stepsTaken, logLines) ==
            Result(500, "Internal Server Error", <<>>, <<>>, stepsTaken, logLines)
    IN IF HousecallConfigMissing(cfg)
       THEN Result(500, "Configuration error", <<>>, <<>>, <<"config">>,
                   <<Error("Missing required environment variables")>>)
       ELSE IF ~IsJsonMime(headers)
       THEN IF flask415
            THEN Result(415, "Unsupported Media Type", <<>>, <<>>, <<"config", "parse">>, received)
            ELSE unhandled(<<"config", "parse">>, received)
       ELSE IF ~IsValidJson(req.body)
       THEN Result(400, "Bad Request", <<>>, <<>>, <<"config", "parse">>, received)
       ELSE IF ~IsDict(json_loads(req.body))
       THEN unhandled(<<"config", "parse">>, received)
       ELSE LET value == json_loads(req.body)
                payload == value.obj
                seen == received \o <<Info("Received payload for event")>>
                calculated_signature == HousecallCalculatedSignature(cfg, headers, value)
                checked == <<"config", "parse", "signature">>
            IN IF "Api-Signature" \notin DOMAIN headers
               THEN unhandled(checked, seen)
               ELSE IF ~compare_digest(calculated_signature, headers["Api-Signature"])
               THEN Result(401, "Invalid signature", <<>>, <<>>, checked,
                           seen \o <<Error("Signature verification failed")>>)
               ELSE IF "event" \notin DOMAIN payload
               THEN unhandled(checked \o <<"switch">>, seen)
               ELSE IF payload["event"] # JOB_CREATED
               THEN Result(200, "OK", <<>>, <<>>, checked \o <<"switch">>,
                           seen \o <<Info("Ignoring non-job.created event")>>)
               ELSE LET processing == seen \o <<Info("Processing job.created event")>>
                    IN IF "job" \notin DOMAIN payload
                       THEN Result(500, "Error processing webhook", <<>>, <<>>,
                                   checked \o <<"switch">>,
                                   processing \o <<Error("Error sending notification")>>)
                       ELSE LET sent == send_chat_notification(payload["job"], cfg.jobUrl, outcome)
                            IN IF sent.raised
                               THEN Result(500, "Error processing webhook", sent.cards, sent.posts,
                                           checked \o <<"switch">> \o sent.steps,
                                           processing \o sent.log \o <<Error("Error sending notification")>>)
                               ELSE Result(200, "OK", sent.cards, sent.posts,
                                           checked \o <<"switch">> \o sent.steps,
                                           processing \o sent.log)

(***************************************************************************)
(* The requests the model sends                                            *)
(***************************************************************************)
SIGNING_SECRET == "whsec"
JOB_URL == "https://chat.example/job"
ESTIMATE_URL == "https://chat.example/estimate"

IsoTime == [iso |-> TRUE, text |-> "2024-01-15T09:00:00Z"]
PlainTime == [iso |-> FALSE, text |-> "tomorrow"]

Employees == {[first_name |-> "T", last_name |-> "U", mobile_number |-> "555"],
              [first_name |-> "T"]}

\* the lists of at most MaxList employees
EmployeeLists == UNION {[1..n -> Employees] : n \in 0..MaxList}

NoteLists == UNION {[1..n -> {[content |-> "call first"]}] : n \in 0..MaxList}

Customers ==
    {EmptyDict,
     [first_name |-> "A", last_name |-> "B"],
     [first_name |-> "A"],
     [first_name |-> "A", last_name |-> "B", email |-> "a@b.c", company |-> "Co",
      home_number |-> "444"]}

Addresses ==
    {EmptyDict, [street |-> "1 Main St", city |-> "Town", state |-> "TX", zip |-> "75001"]}

Schedules == {EmptyDict, [scheduled_start |-> IsoTime, scheduled_end |-> PlainTime]}

Jobs ==
    {EmptyDict}
    \cup {[id |-> "1", customer |-> c] : c \in Customers}
    \cup {[id |-> "1", customer |-> c, address |-> a, schedule |-> sc] :
            c \in Customers, a \in Addresses, sc \in Schedules}
    \cup {[customer |-> [first_name |-> "A", last_name |-> "B"], address |-> EmptyDict,
           schedule |-> EmptyDict, invoice_number |-> "17", description |-> "Fix sink",
           work_status |-> "scheduled", total_amount |-> 150,
           job_fields |-> [job_type |-> [name |-> "Plumbing"]], notes |-> n] :
            n \in NoteLists}

Estimates ==
    {EmptyDict}
    \cup {[id |-> "5", estimate_number |-> "12", customer |-> [first_name |-> "A", last_name |-> "B"],
           schedule |-> [scheduled_start |-> IsoTime, arrival_window |-> 30],
           assigned_employees |-> l] : l \in EmployeeLists}

Appointments ==
    {EmptyDict, [id |-> "9", job_id |-> "7"]}
    \cup {[id |-> "9", job_id |-> "7", dispatched_employees |-> l] : l \in EmployeeLists}
    \cup {[id |-> "9", job_id |-> "7", start_time |-> IsoTime, end_time |-> PlainTime,
           arrival_window_minutes |-> w] : w \in {0, 1, 90, 120}}

\* the appointment events of title_map, one that is not in it, and the bare prefix
AppointmentEvents ==
    {APPT_SCHEDULED, APPT_RESCHEDULED, APPT_DISCARDED, APPT_PROS_ASSIGNED,
     APPT_PROS_UNASSIGNED, <<"job", "appointment", "paused">>, <<"job", "appointment", "">>}

\* events no version has a formatter for
UnknownEvents == {<<"unknown", "thing">>, <<"job", "appointment">>, <<"job", "completed">>}

\* the envelopes: JSON objects with or without an event and an entity
Envelopes ==
    {[event |-> JOB_CREATED, job |-> j] : j \in Jobs}
    \cup {[event |-> ESTIMATE_SCHEDULED, estimate |-> e] : e \in Estimates}
    \cup {[event |-> e, appointment |-> a] : e \in AppointmentEvents, a \in Appointments}
    \cup {[event |-> e] : e \in UnknownEvents \cup {JOB_CREATED, ESTIMATE_SCHEDULED, APPT_DISCARDED}}
    \cup {[event |-> <<"unknown", "thing">>, job |-> [id |-> "1"]]}
    \cup {EmptyDict, [job |-> [id |-> "1", customer |-> [first_name |-> "A", last_name |-> "B"]]]}

\* the decoded JSON values: the envelopes and a value that is no object
JsonValues == {[kind |-> "dict", obj |-> e] : e \in Envelopes} \cup {[kind |-> "list", obj |-> EmptyDict]}

\* the request bodies: each value in the sender's compact spelling and in the
\* spelling json.dumps writes, and a body that is not JSON
Bodies ==
    {[form |-> f, value |-> v] : f \in {"compact", "default"}, v \in JsonValues}
    \cup {[form |-> "malformed", value |-> [kind |-> "list", obj |-> EmptyDict]]}

\* what the sender signs: the timestamp it sends, a dot and the raw body
SenderSignature(key, timestamp, body) == HmacSha256Hex(key, <<timestamp, ".", body>>)

\* the Api-Signature values tried for a body: the sender's under the right and
\* under another key, the one over the re-serialized body, and each of the two
\* right ones with one hex character replaced
SignaturesFor(timestamp, body) ==
    LET right == SenderSignature(SIGNING_SECRET, timestamp, body)
        reserialized == SenderSignature(SIGNING_SECRET, timestamp, json_dumps(body.value))
    IN {right, reserialized, SenderSignature("other", timestamp, body)}
       \cup {FlipChar(right, i) : i \in 1..DigestLen}
       \cup {FlipChar(reserialized, i) : i \in 1..DigestLen}

JsonHeader == [x \in {"Content-Type"} |-> "application/json"]
PlainHeader == [x \in {"Content-Type"} |-> "text/plain"]

Timestamps == {"1700000000"}

\* the POSTs to /webhooks/housecall
Requests ==
    {[headers |-> JsonHeader, body |-> b] : b \in Bodies}
    \cup {[headers |-> JsonHeader @@ [x \in {"Api-Timestamp"} |-> t], body |-> b] :
            t \in Timestamps, b \in Bodies}
    \cup {[headers |-> JsonHeader
                        @@ [x \in {"Api-Signature"} |-> SenderSignature(SIGNING_SECRET, "None", b)],
           body |-> b] : b \in Bodies}
    \cup UNION {{[headers |-> JsonHeader @@ [x \in {"Api-Timestamp"} |-> t]
                                @@ [x \in {"Api-Signature"} |-> sg], body |-> b] :
                    sg \in SignaturesFor(t, b)} : t \in Timestamps, b \in Bodies}
    \cup UNION {{[headers |-> PlainHeader @@ [x \in {"Api-Timestamp"} |-> t]
                                @@ [x \in {"Api-Signature"} |-> SenderSignature(SIGNING_SECRET, t, b)],
                  body |-> b] : t \in Timestamps} :
                    b \in {c \in Bodies : c.value.kind = "list" \/ c.value.obj = EmptyDict}}

(***************************************************************************)
(* The service                                                             *)
(***************************************************************************)
Config == [secret |-> secret, jobUrl |-> jobUrl, estimateUrl |-> estimateUrl]

NoRequest == EmptyDict
NoResponse == EmptyDict

TypeOK ==
    /\ version \in {"Housecall", "app"}
    /\ secret \in {"", SIGNING_SECRET}
    /\ jobUrl \in {"", JOB_URL}
    /\ estimateUrl \in {"", ESTIMATE_URL}
    /\ pc \in {"idle", "responded"}

\* the process has started: one version is deployed, the environment has been read
Init ==
    /\ version \in {"Housecall", "app"}
    /\ secret \in {"", SIGNING_SECRET}
    /\ jobUrl \in {"", JOB_URL}
    /\ estimateUrl \in IF version = "app" THEN {"", ESTIMATE_URL} ELSE {""}
    /\ pc = "idle"
    /\ request = NoRequest
    /\ response = NoResponse
    /\ outbound = <<>>
    /\ steps = <<>>
    /\ log = <<>>

\* the handler has returned r for req
Answer(req, r) ==
    /\ pc' = "responded"
    /\ request' = req
    /\ response' = [status |-> r.status, body |-> r.body, cards |-> r.cards]
    /\ outbound' = r.posts
    /\ steps' = r.steps
    /\ log' = r.log
    /\ UNCHANGED <<version, secret, jobUrl, estimateUrl>>

\* POST /webhooks/housecall served by src/Housecall.py
HandleWebhookHousecall ==
    /\ pc = "idle"
    /\ version = "Housecall"
    /\ \E req \in Requests, outcome \in ChatOutcomes, flask415 \in BOOLEAN :
          Answer([method |-> "POST", path |-> "/webhooks/housecall"] @@ req,
                 HousecallHandleWebhook(req, Config, outcome, flask415))

\* POST /webhooks/housecall served by src/app.py
HandleWebhookApp ==
    /\ pc = "idle"
    /\ version = "app"
    /\ \E req \in Requests, outcome \in ChatOutcomes :
          Answer([method |-> "POST", path |-> "/webhooks/housecall"] @@ req,
                 AppHandleWebhook(req, Config, outcome))

\* GET / : home() of either version
Home ==
    /\ pc = "idle"
    /\ Answer([method |-> "GET", path |-> "/", headers |-> EmptyDict,
               body |-> [form |-> "default", value |-> [kind |-> "list", obj |-> EmptyDict]]],
              Result(200, "Webhook receiver is running!", <<>>, <<>>, <<>>, <<>>))

\* the answer has been sent: nothing of the request is kept
Finish ==
    /\ pc = "responded"
    /\ pc' = "idle"
    /\ request' = NoRequest
    /\ response' = NoResponse
    /\ outbound' = <<>>
    /\ steps' = <<>>
    /\ log' = <<>>
    /\ UNCHANGED <<version, secret, jobUrl, estimateUrl>>

Next == HandleWebhookHousecall \/ HandleWebhookApp \/ Home \/ Finish

Spec == Init /\ [][Next]_vars

(***************************************************************************)
(* The claims                                                              *)
(***************************************************************************)
\* a POST to /webhooks/housecall has been answered
WebhookAnswered == pc = "responded" /\ request.path = "/webhooks/housecall"

\* the secret and the job URL are configured (and, in src/app.py, the estimate URL)
ConfigComplete ==
    secret # "" /\ jobUrl # "" /\ (version = "app" => estimateUrl # "")

HasHeader(name) == name \in DOMAIN request.headers

\* the body decodes to a JSON object
BodyIsEnvelope == IsValidJson(request.body) /\ IsDict(json_loads(request.body))

Envelope == json_loads(request.body).obj

\* the hex HMAC-SHA256 of "{timestamp}.{body}" over the raw body of the request
RawBodySignature == HmacSha256Hex(secret, SignatureBody(request.headers, request.body))

\* the request gets past the signature check of the deployed version
PassesSignatureCheck ==
    \/ version = "app"
    \/ /\ HasHeader("Api-Signature")
       /\ request.headers["Api-Signature"]
            = HmacSha256Hex(secret, SignatureBody(request.headers, json_dumps(json_loads(request.body))))

\* C1: a POST whose Api-Signature differs from the hex HMAC-SHA256 of
\* "{timestamp}.{body}" under the signing secret is answered 401 and causes no
\* outbound POST (stated for the case the claim singles out, a signature that
\* differs from the right one in a single character, and for a fully
\* configured service and a JSON request).
C1_SignatureMismatchIs401 ==
    (/\ WebhookAnswered
     /\ ConfigComplete
     /\ IsJsonMime(request.headers)
     /\ BodyIsEnvelope
     /\ HasHeader("Api-Timestamp")
     /\ HasHeader("Api-Signature")
     /\ \E i \in 1..DigestLen :
            request.headers["Api-Signature"] = FlipChar(RawBodySignature, i))
    => (response.status = 401 /\ outbound = <<>>)

\* C2: a request whose Api-Signature is the hex HMAC-SHA256, keyed by the
\* secret, of timestamp + "." + the exact raw body passes the signature check:
\* it is never answered 401.
C2_RawBodySignaturePasses ==
    (/\ WebhookAnswered
     /\ ConfigComplete
     /\ HasHeader("Api-Timestamp")
     /\ HasHeader("Api-Signature")
     /\ request.headers["Api-Signature"] = RawBodySignature)
    => response.status # 401

\* C3: when the Api-Timestamp or the Api-Signature header is absent, the
\* signature check does not raise: the handler never ends in the signature
\* step with an unhandled error.
C3_AbsentHeaderNeverRaises ==
    (/\ WebhookAnswered
     /\ ~HasHeader("Api-Timestamp") \/ ~HasHeader("Api-Signature"))
    => ~(/\ steps # <<>>
         /\ steps[Len(steps)] = "signature"
         /\ response.status = 500)

\* C4: a POST whose body is not valid JSON is answered 400, and nothing is
\* dispatched: no formatter runs and no outbound POST is made (stated for a
\* fully configured service and a request with a JSON Content-Type).
C4_MalformedJsonIs400 ==
    (/\ WebhookAnswered
     /\ ConfigComplete
     /\ IsJsonMime(request.headers)
     /\ ~IsValidJson(request.body))
    => (response.status = 400 /\ response.cards = <<>> /\ outbound = <<>>)

\* the event of the envelope is none of job.created, estimate.scheduled and
\* job.appointment.*; an envelope without the key counts
EventUnrecognized ==
    LET event == Get(Envelope, "event", EMPTY_EVENT)
    IN event # JOB_CREATED /\ event # ESTIMATE_SCHEDULED /\ ~StartsWithJobAppointment(event)

\* C5: an envelope whose event is not a recognized event type, or that has no
\* event key, is answered 200 and causes no outbound POST (stated for a fully
\* configured service and a request that gets past the signature check).
C5_UnrecognizedEventIs200 ==
    (/\ WebhookAnswered
     /\ ConfigComplete
     /\ IsJsonMime(request.headers)
     /\ BodyIsEnvelope
     /\ HasHeader("Api-Timestamp")
     /\ PassesSignatureCheck
     /\ EventUnrecognized)
    => (response.status = 200 /\ outbound = <<>>)

\* an HTTP success status
IsSuccessStatus(status_code) == status_code \in 200..299

\* C6 as stated: the outbound POST is attempted exactly once; if it returns a
\* non-success status the request is answered 500, if it returns a success
\* status the request is answered 200.
C6_SuccessStatusIs200 ==
    (WebhookAnswered /\ outbound # <<>> /\ outbound[1].outcome.connected)
    => /\ Len(outbound) = 1
       /\ IF IsSuccessStatus(outbound[1].outcome.status_code)
          THEN response.status = 200
          ELSE response.status = 500

\* C6 as amended: the outbound POST is attempted exactly once, with no retry;
\* the request is answered 200 if the POST is answered 200, and 500 if it is
\* answered with any other status (another 2xx included) or the connection fails.
C6_Only200IsDelivered ==
    (WebhookAnswered /\ outbound # <<>>)
    => /\ Len(outbound) = 1
       /\ IF outbound[1].outcome.connected /\ outbound[1].outcome.status_code = 200
          THEN response.status = 200
          ELSE response.status = 500

\* a recognized event was POSTed once, answered 204, and the request answered 500
C6_Witness ==
    /\ WebhookAnswered
    /\ Len(outbound) = 1
    /\ outbound[1].outcome.connected
    /\ outbound[1].outcome.status_code = 204
    /\ response.status = 500

\* the card has a section with this header
HasSection(card, header) ==
    \E i \in 1..Len(card.sections) :
        "header" \in DOMAIN card.sections[i] /\ card.sections[i].header = header

\* src/app.py has routed the envelope to process_appointment_event
AppointmentDispatched ==
    /\ WebhookAnswered
    /\ version = "app"
    /\ BodyIsEnvelope
    /\ StartsWithJobAppointment(Get(Envelope, "event", EMPTY_EVENT))

\* C7: the card built for job.appointment.appointment_discarded has a
\* "Cancellation Notice" section and no "Assigned Technicians" section, whatever
\* dispatched_employees is; the card of any other job.appointment.* event has
\* no "Cancellation Notice" section.
C7_CancelledCard ==
    (AppointmentDispatched /\ response.cards # <<>>)
    => LET card == response.cards[1]
       IN IF Envelope["event"] = APPT_DISCARDED
          THEN HasSection(card, "Cancellation Notice") /\ ~HasSection(card, "Assigned Technicians")
          ELSE ~HasSection(card, "Cancellation Notice")

\* a discarded appointment that still lists technicians got its card
C7_Witness ==
    /\ AppointmentDispatched
    /\ Envelope["event"] = APPT_DISCARDED
    /\ Get(Get(Envelope, "appointment", EmptyDict), "dispatched_employees", <<>>) # <<>>
    /\ response.cards # <<>>
    /\ HasSection(response.cards[1], "Cancellation Notice")

\* the text of the first widget of the card's customer section
CustomerText(card) ==
    LET i == CHOOSE j \in 1..Len(card.sections) :
                 /\ "header" \in DOMAIN card.sections[j]
                 /\ card.sections[j].header \in {"Customer Information", "Customer Details"}
    IN card.sections[i].widgets[1].text

\* C8: for a job.created envelope whose job has an id i and a customer with
\* first_name f and last_name l, whatever else of the job is absent, dispatch
\* builds a card with cardId "job-" i and customer text f, a space, l (stated
\* for a fully configured service and a request that gets past the signature
\* check).
C8_JobCardFromMinimalJob ==
    (/\ WebhookAnswered
     /\ ConfigComplete
     /\ IsJsonMime(request.headers)
     /\ BodyIsEnvelope
     /\ HasHeader("Api-Timestamp")
     /\ PassesSignatureCheck
     /\ Get(Envelope, "event", EMPTY_EVENT) = JOB_CREATED
     /\ "job" \in DOMAIN Envelope
     /\ {"id", "customer"} \subseteq DOMAIN Envelope["job"]
     /\ {"first_name", "last_name"} \subseteq DOMAIN Envelope["job"]["customer"])
    => /\ Len(response.cards) = 1
       /\ response.cards[1].cardId = <<"job-", Envelope["job"]["id"]>>
       /\ CustomerText(response.cards[1])
            = <<Envelope["job"]["customer"]["first_name"], " ",
                Envelope["job"]["customer"]["last_name"]>>

\* the five events the lookup lists
ListedAppointmentEvents ==
    {APPT_SCHEDULED, APPT_RESCHEDULED, APPT_DISCARDED, APPT_PROS_ASSIGNED, APPT_PROS_UNASSIGNED}

\* C9: in the version that has the appointment formatter (src/app.py) every
\* event that starts with "job.appointment." is formatted as an appointment
\* card and handed to the sender, never treated as an unrecognized no-op: each
\* of the five listed events gets the title and subtitle the lookup holds for
\* it, no two alike and none the generic one; any other gets the generic title
\* "Appointment Update".  With a job URL configured the card is POSTed.
C9_AppointmentPrefixDispatched ==
    AppointmentDispatched
    => /\ Len(response.cards) = 1
       /\ steps = <<"raw_body", "parse", "switch", "format", "send">>
       /\ response.cards[1].cardId = <<"appointment-", Get(Get(Envelope, "appointment", EmptyDict), "id", "unknown")>>
       /\ jobUrl # "" => (Len(outbound) = 1 /\ outbound[1].json = response.cards[1]
                            /\ outbound[1].url = jobUrl)
       /\ LET event == Envelope["event"]
              header == response.cards[1].header
          IN IF event \in ListedAppointmentEvents
             THEN /\ header.title = title_map[event][1]
                  /\ header.subtitle = title_map[event][2]
                  /\ header.title # "Appointment Update"
                  /\ \A other \in ListedAppointmentEvents \ {event} :
                        title_map[other][1] # header.title /\ title_map[other][2] # header.subtitle
             ELSE header.title = "Appointment Update"

\* an appointment event that the lookup does not list was POSTed with the generic title
C9_Witness ==
    /\ AppointmentDispatched
    /\ Envelope["event"] \notin ListedAppointmentEvents
    /\ Len(outbound) = 1
    /\ outbound[1].json.header.title = "Appointment Update"

\* the POST that went out was not answered 200
DeliveryFailed ==
    outbound # <<>> /\ ~(outbound[1].outcome.connected /\ outbound[1].outcome.status_code = 200)

\* C10: with the signing secret or the destination URL absent the service
\* still accepts the POST: it skips the verification or the delivery and does
\* not fail the request because of the missing configuration (stated for a
\* well-formed request: an answer other than 200 comes only from a delivery
\* that was attempted and failed).
C10_MissingConfigStillAccepted ==
    (/\ WebhookAnswered
     /\ secret = "" \/ jobUrl = ""
     /\ IsJsonMime(request.headers)
     /\ BodyIsEnvelope
     /\ "event" \in DOMAIN Envelope
     /\ HasHeader("Api-Timestamp")
     /\ HasHeader("Api-Signature"))
    => (response.status = 200 \/ DeliveryFailed)

\* the steps that the signature check must precede
StepsAfterSignature == {"parse", "switch", "format", "send"}

\* C11: within one request the signature check comes before the JSON parse,
\* and no event switch, formatting or send happens before the signature check
\* has completed: every parse, switch, format and send step of the handler has
\* a signature step before it (stated for a service whose signing secret and
\* URLs are configured, where the check is not optional, and a request that
\* carries both signature headers).
C11_SignatureCheckFirst ==
    (/\ WebhookAnswered
     /\ ConfigComplete
     /\ HasHeader("Api-Timestamp")
     /\ HasHeader("Api-Signature"))
    => \A i \in 1..Len(steps) :
          steps[i] \in StepsAfterSignature
          => \E j \in 1..(i - 1) : steps[j] = "signature"

====
